---- MODULE Spec2Model ----
(***************************************************************************)
(* Model of connection/connection.go: the connectionManager, its two       *)
(* constructors, GetConnection with its sync.Once guard, AutoMigrate and   *)
(* AutoMigrateOrWarn with the migratedTables map, Dialect and ConnString.  *)
(*                                                                         *)
(* One constructor call is made by thread Main; once it has returned the   *)
(* manager, the threads of Callers invoke the manager's methods, possibly  *)
(* concurrently.  The collaborators (gorm.Open, db.DB(), db.AutoMigrate)   *)
(* are opaque: each of their outcomes is a nondeterministic choice.        *)
(***************************************************************************)
EXTENDS Integers, Sequences, FiniteSets, TLC

\* ---------------------------------------------------------------- bounds
\* Total number of method calls the callers make on the manager.
MaxCalls == 2

\* ------------------------------------------------------------- constants
\* A nil error, a nil interface, an unset mutex owner.
Nil == "nil"
\* Pointers: the nil pointer, and the pointer to x.
NilPtr == << >>
Ptr(x) == << x >>
Deref(p) == p[1]

\* sqlDB.SetMaxIdleConns(10)
MaxIdleConns == 10
\* sqlDB.SetMaxOpenConns(-1)
MaxOpenConns == -1
\* logger.Config.SlowThreshold: time.Second, in milliseconds
DefaultSlowThreshold == 1000

\* var ErrConnectionClosed = errors.New("db connection closed")
ErrConnectionClosed == "db connection closed"
\* the error of a failed gorm.Open
ErrOpen == "open failed"
\* the error of a failed c.db.DB()
ErrPool == "no sql.DB for this connection"
\* the error of a failed c.db.AutoMigrate(...)
ErrSync == "schema sync failed"

\* ---------------------------------------------------------------- threads
Main == "main"
Callers == {"u1", "u2"}
Threads == {Main} \cup Callers

\* ------------------------------------------------------------ input values
\* The gorm.Dialector value a caller hands to the constructor.
PgDialector == "pgDialector"

\* Dialector.Name() of a dialector value.
DialectorName(d) == IF d = "pgDialector" THEN "postgres" ELSE "unknown"

\* Connection strings a caller hands to the constructor.
ConnStrA == "host=a dbname=x"
ConnStrB == "host=b dbname=y"

\* The configuration built when the constructor is given none.
DefaultConfig ==
    [Logger |-> Ptr([Writer |-> "os.Stdout",
                     SlowThreshold |-> DefaultSlowThreshold,
                     LogLevel |-> "logger.Error",
                     Colorful |-> TRUE]),
     Dialector |-> Nil]

\* gorm's logger.Default, which gorm.Open uses when the configuration names
\* no logger.
GormDefaultLogger ==
    [Writer |-> "os.Stdout", SlowThreshold |-> 200,
     LogLevel |-> "logger.Warn", Colorful |-> TRUE]

\* An explicit configuration a caller may hand to the constructor:
\* &gorm.Config{}.
ZeroConfig == [Logger |-> NilPtr, Dialector |-> Nil]

\* The constructor calls: must tells MustNewBaseConnectionManager from
\* NewBaseConnectionManager.  Every pair of argument values occurs in one.
ConstructorCalls ==
    { [connStr |-> ConnStrA, dialector |-> PgDialector, config |-> NilPtr,
       must |-> FALSE],
      [connStr |-> ConnStrB, dialector |-> PgDialector, config |-> Ptr(ZeroConfig),
       must |-> FALSE],
      [connStr |-> ConnStrA, dialector |-> PgDialector, config |-> Ptr(ZeroConfig),
       must |-> TRUE],
      [connStr |-> ConnStrB, dialector |-> PgDialector, config |-> NilPtr,
       must |-> TRUE] }

\* Table models: <<type identity, value>>.  A1 and A2 are two values of one
\* type.
A1 == << "A", 1 >>
A2 == << "A", 2 >>
B1 == << "B", 1 >>
C1 == << "C", 1 >>
Types == { "A", "B", "C" }

\* reflect.ValueOf(table).Type()
TypeOf(table) == table[1]

\* The argument lists callers give to AutoMigrate (lists of non-nil table
\* models).
TableLists ==
    { << >>, << A1, A2 >>, << A1, B1 >>, << A1, B1, C1 >> }

\* The argument lists callers give to AutoMigrateOrWarn.
WarnTableLists ==
    { << >>, << A1, B1 >> }

TypesOf(s) == { TypeOf(s[i]) : i \in DOMAIN s }

VARIABLES
    args,             \* the constructor call: connStr, dialector, config, must
    dialector,        \* connectionManager.dialector
    config,           \* connectionManager.config
    connStr,          \* connectionManager.connStr
    db,               \* connectionManager.db: NilPtr or a handle
    once,             \* connectionManager.once: [done, m]
    migratedTables,   \* connectionManager.migratedTables: the keys mapped to true
    pc,               \* each thread's position
    op,               \* the method each thread is in
    err,              \* the local err of GetConnection / AutoMigrateOrWarn, per thread
    tables,           \* AutoMigrate's argument list, per thread
    idx,              \* AutoMigrate's loop position, per thread
    unmigratedTables, \* AutoMigrate's local slice, per thread
    ret,              \* the value each thread's call is about to return
    synced,           \* the batches each thread's call has handed to db.AutoMigrate
    syncErrs,         \* what db.AutoMigrate returned for each of those batches
    printed,          \* the lines each thread's call has written through package log
    process,          \* "running", "exited" (log.Fatalf) or "fault" (runtime throw)
    calls,            \* number of method calls the callers have made
    openCalls,        \* number of gorm.Open invocations
    onceErr,          \* the error the one-time action ended with
    poolCalls,        \* the pool settings applied, in order
    gcHandles,        \* the handles GetConnection calls have returned
    syncCount,        \* per type identity: times handed to db.AutoMigrate
    syncFailed        \* type identities of the batches db.AutoMigrate failed on

vars == << args, dialector, config, connStr, db, once, migratedTables, pc, op,
           err, tables, idx, unmigratedTables, ret, synced, syncErrs, printed, process,
           calls, openCalls, onceErr, poolCalls, gcHandles, syncCount,
           syncFailed >>

\* The manager's own fields.
fields == << dialector, config, connStr, db, once, migratedTables >>
\* What the collaborators have seen of the manager.
effects == << openCalls, onceErr, poolCalls, syncCount, syncFailed >>
\* A call's frame, apart from pc.
frame == << op, err, tables, idx, unmigratedTables, ret, synced, syncErrs, printed >>
\* AutoMigrate's locals.
amLocals == << tables, idx, unmigratedTables >>

NoRet == [kind |-> "none"]

\* State right after the struct literal of NewBaseConnectionManager.
Init ==
    /\ args \in ConstructorCalls
    /\ dialector = args.dialector
    /\ config = args.config
    /\ connStr = args.connStr
    /\ db = NilPtr
    /\ once = [done |-> FALSE, m |-> Nil]
    /\ migratedTables = {}
    /\ pc = [t \in Threads |-> IF t = Main THEN "new_config" ELSE "idle"]
    /\ op = [t \in Threads |-> IF t = Main THEN "New" ELSE "none"]
    /\ err = [t \in Threads |-> Nil]
    /\ tables = [t \in Threads |-> << >>]
    /\ idx = [t \in Threads |-> 1]
    /\ unmigratedTables = [t \in Threads |-> << >>]
    /\ ret = [t \in Threads |-> NoRet]
    /\ synced = [t \in Threads |-> << >>]
    /\ syncErrs = [t \in Threads |-> << >>]
    /\ printed = [t \in Threads |-> << >>]
    /\ process = "running"
    /\ calls = 0
    /\ openCalls = 0
    /\ onceErr = Nil
    /\ poolCalls = << >>
    /\ gcHandles = {}
    /\ syncCount = [ty \in Types |-> 0]
    /\ syncFailed = {}

Running == process = "running"

Goto(t, label) == pc' = [pc EXCEPT ![t] = label]

\* ------------------------------------------------ NewBaseConnectionManager
\* NewDefaultConfig of a constructor that leaves the open to the first
\* GetConnection call of a caller.
NewDefaultConfigLazy(t) ==
    /\ Running
    /\ pc[t] = "new_config"
    /\ config' = IF config = NilPtr THEN Ptr(DefaultConfig) ELSE config
    /\ ret' = [ret EXCEPT ![t] = [kind |-> "conn", db |-> db, err |-> Nil]]
    /\ Goto(t, "new_ret")
    /\ UNCHANGED << args, dialector, connStr, db, once, migratedTables, op,
                    err, amLocals, synced, syncErrs, printed, process, calls,
                    gcHandles, effects >>

\* NewDefaultConfig that installs the default configuration whatever the
\* caller handed in.
NewDefaultConfigAlways(t) ==
    /\ Running
    /\ pc[t] = "new_config"
    /\ config' = Ptr(DefaultConfig)
    /\ Goto(t, "gc_do")
    /\ UNCHANGED << args, dialector, connStr, db, once, migratedTables, frame,
                    process, calls, gcHandles, effects >>

\* if connMan.config == nil { ... connMan.config = &gorm.Config{Logger: defaultLogger} }
\* and then the call of connMan.GetConnection().
NewDefaultConfig(t) ==
    /\ Running
    /\ pc[t] = "new_config"
    /\ config' = IF config = NilPtr THEN Ptr(DefaultConfig) ELSE config
    /\ Goto(t, "gc_do")
    /\ UNCHANGED << args, dialector, connStr, db, once, migratedTables, frame,
                    process, calls, gcHandles, effects >>

\* NewReturn with the error of the open attempt dropped: both constructors
\* return the manager and a nil error.
NewReturnDropErr(t) ==
    /\ Running
    /\ pc[t] = "new_ret"
    /\ ret' = [ret EXCEPT ![t] = [kind |-> "manager", err |-> Nil]]
    /\ Goto(t, "returned")
    /\ UNCHANGED << args, fields, op, err, amLocals, synced, syncErrs, printed, process,
                    calls, gcHandles, effects >>

\* _, err := connMan.GetConnection(); return connMan, err -- and, in
\* MustNewBaseConnectionManager, log.Fatalf when err != nil.
NewReturn(t) ==
    /\ Running
    /\ pc[t] = "new_ret"
    /\ IF args.must /\ ret[t].err # Nil
       THEN /\ printed' = [printed EXCEPT ![t] = Append(@,
                  [format |-> "failed to connect to database: %s", arg |-> ret[t].err])]
            /\ process' = "exited"
            /\ Goto(t, "fatal")
            /\ ret' = [ret EXCEPT ![t] = NoRet]
       ELSE /\ ret' = [ret EXCEPT ![t] = [kind |-> "manager", err |-> ret[t].err]]
            /\ Goto(t, "returned")
            /\ UNCHANGED << printed, process >>
    /\ UNCHANGED << args, fields, op, err, amLocals, synced, syncErrs, calls, gcHandles,
                    effects >>

\* ------------------------------------------------------------------ callers
\* A caller may start a method call once the constructor has returned.
CanCall(t) ==
    /\ Running
    /\ t \in Callers
    /\ pc[Main] = "returned"
    /\ pc[t] = "idle"
    /\ calls < MaxCalls

\* The positions at which a caller's method is about to return ret[t].
ReturnPoints(t) ==
    IF op[t] = "AutoMigrateOrWarn" THEN {"ow_ret"}
    ELSE {"gc_ret2", "am_ret", "acc_ret"}

\* The method returns to the caller: its frame is gone.
Return(t) ==
    /\ Running
    /\ t \in Callers
    /\ pc[t] \in ReturnPoints(t)
    /\ Goto(t, "idle")
    /\ op' = [op EXCEPT ![t] = "none"]
    /\ err' = [err EXCEPT ![t] = Nil]
    /\ tables' = [tables EXCEPT ![t] = << >>]
    /\ idx' = [idx EXCEPT ![t] = 1]
    /\ unmigratedTables' = [unmigratedTables EXCEPT ![t] = << >>]
    /\ ret' = [ret EXCEPT ![t] = NoRet]
    /\ synced' = [synced EXCEPT ![t] = << >>]
    /\ syncErrs' = [syncErrs EXCEPT ![t] = << >>]
    /\ printed' = [printed EXCEPT ![t] = << >>]
    /\ UNCHANGED << args, fields, process, calls, gcHandles, effects >>

\* ------------------------------------------------------------ GetConnection
\* A caller enters GetConnection: var err error.
GetConnection(t) ==
    /\ CanCall(t)
    /\ calls' = calls + 1
    /\ op' = [op EXCEPT ![t] = "GetConnection"]
    /\ err' = [err EXCEPT ![t] = Nil]
    /\ Goto(t, "gc_do")
    /\ UNCHANGED << args, fields, amLocals, ret, synced, syncErrs, printed, process,
                    gcHandles, effects >>

\* OnceDo that does not wait for the one-time action: the call goes on to
\* its return statement whatever the state of the guard.
OnceDoNoWait(t) ==
    /\ Running
    /\ pc[t] = "gc_do"
    /\ Goto(t, "gc_ret")
    /\ UNCHANGED << args, fields, frame, process, calls, gcHandles, effects >>

\* sync.Once.Do, fast path: if atomic.LoadUint32(&o.done) == 0 { o.doSlow(f) }
OnceDo(t) ==
    /\ Running
    /\ pc[t] = "gc_do"
    /\ Goto(t, IF once.done THEN "gc_ret" ELSE "gc_lock")
    /\ UNCHANGED << args, fields, frame, process, calls, gcHandles, effects >>

\* sync.Once.doSlow: o.m.Lock(); if o.done == 0 { defer ...; f() }
OnceDoSlow(t) ==
    /\ Running
    /\ pc[t] = "gc_lock"
    /\ once.m = Nil
    /\ IF once.done
       THEN /\ Goto(t, "gc_ret")
            /\ UNCHANGED once
       ELSE /\ once' = [once EXCEPT !.m = t]
            /\ Goto(t, "gc_open")
    /\ UNCHANGED << args, dialector, config, connStr, db, migratedTables,
                    frame, process, calls, gcHandles, effects >>

\* What gorm.Open may return for its n-th invocation: a handle and no error,
\* or an error together with a handle or with none.
OpenOutcomes(n) ==
    { [db |-> Ptr(n), err |-> Nil],
      [db |-> Ptr(n), err |-> ErrOpen],
      [db |-> NilPtr, err |-> ErrOpen] }

\* What gorm.Open may leave in the *gorm.Config it is given: nothing (it
\* works on a copy), or its dialector and the defaults of the unset fields
\* (it works on the configuration itself).
OpenConfigs(cfg, d) ==
    { cfg,
      Ptr([Deref(cfg) EXCEPT
             !.Dialector = d,
             !.Logger = IF @ = NilPtr THEN Ptr(GormDefaultLogger) ELSE @]) }

\* execOnceOnlyFunc, first half: c.db, err = gorm.Open(c.dialector, c.config)
ExecOnceOpen(t) ==
    /\ Running
    /\ pc[t] = "gc_open"
    /\ openCalls' = openCalls + 1
    /\ \E r \in OpenOutcomes(openCalls + 1) :
          /\ db' = r.db
          /\ err' = [err EXCEPT ![t] = r.err]
          /\ onceErr' = r.err
          /\ Goto(t, IF r.err # Nil THEN "gc_unlock" ELSE "gc_pool")
    /\ config' \in OpenConfigs(config, dialector)
    /\ UNCHANGED << args, dialector, connStr, once, migratedTables, op,
                    amLocals, ret, synced, syncErrs, printed, process, calls, gcHandles,
                    poolCalls, syncCount, syncFailed >>

\* ExecOncePool without the check of the error of c.db.DB(): the two pool
\* settings are made whatever it returned.
ExecOncePoolNoCheck(t) ==
    /\ Running
    /\ pc[t] = "gc_pool"
    /\ \E e \in {Nil, ErrPool} :
          /\ err' = [err EXCEPT ![t] = e]
          /\ onceErr' = e
    /\ poolCalls' = poolCalls \o
                        << [set |-> "MaxIdleConns", n |-> MaxIdleConns],
                           [set |-> "MaxOpenConns", n |-> MaxOpenConns] >>
    /\ Goto(t, "gc_unlock")
    /\ UNCHANGED << args, fields, op, amLocals, ret, synced, syncErrs, printed,
                    process, calls, gcHandles, openCalls, syncCount, syncFailed >>

\* execOnceOnlyFunc, second half: sqlDB, err = c.db.DB(), then the two pool
\* settings unless err != nil.
ExecOncePool(t) ==
    /\ Running
    /\ pc[t] = "gc_pool"
    /\ \E e \in {Nil, ErrPool} :
          /\ err' = [err EXCEPT ![t] = e]
          /\ onceErr' = e
          /\ poolCalls' = IF e # Nil THEN poolCalls
                          ELSE poolCalls \o
                               << [set |-> "MaxIdleConns", n |-> MaxIdleConns],
                                  [set |-> "MaxOpenConns", n |-> MaxOpenConns] >>
    /\ Goto(t, "gc_unlock")
    /\ UNCHANGED << args, fields, op, amLocals, ret, synced, syncErrs, printed, process,
                    calls, gcHandles, openCalls, syncCount, syncFailed >>

\* OnceDone without the store to o.done: the mutex is released and the
\* guard stays open.
OnceDoneNoStore(t) ==
    /\ Running
    /\ pc[t] = "gc_unlock"
    /\ once' = [done |-> FALSE, m |-> Nil]
    /\ Goto(t, "gc_ret")
    /\ UNCHANGED << args, dialector, config, connStr, db, migratedTables,
                    frame, process, calls, gcHandles, effects >>

\* sync.Once.doSlow, the deferred calls: atomic.StoreUint32(&o.done, 1) and
\* o.m.Unlock().
OnceDone(t) ==
    /\ Running
    /\ pc[t] = "gc_unlock"
    /\ once' = [done |-> TRUE, m |-> Nil]
    /\ Goto(t, "gc_ret")
    /\ UNCHANGED << args, dialector, config, connStr, db, migratedTables,
                    frame, process, calls, gcHandles, effects >>

\* GetConnectionReturn that returns the error the one-time action ended
\* with, as if the manager kept it.
GetConnectionReturnKeptErr(t) ==
    /\ Running
    /\ pc[t] = "gc_ret"
    /\ ret' = [ret EXCEPT ![t] = [kind |-> "conn", db |-> db, err |-> onceErr]]
    /\ gcHandles' = gcHandles \cup { db }
    /\ Goto(t, IF t = Main THEN "new_ret" ELSE "gc_ret2")
    /\ UNCHANGED << args, fields, op, err, amLocals, synced, syncErrs, printed,
                    process, calls, effects >>

\* return c.db, err
GetConnectionReturn(t) ==
    /\ Running
    /\ pc[t] = "gc_ret"
    /\ ret' = [ret EXCEPT ![t] = [kind |-> "conn", db |-> db, err |-> err[t]]]
    /\ gcHandles' = gcHandles \cup { db }
    /\ Goto(t, IF t = Main THEN "new_ret" ELSE "gc_ret2")
    /\ UNCHANGED << args, fields, op, err, amLocals, synced, syncErrs, printed, process,
                    calls, effects >>

\* ---------------------------------------------- AutoMigrate / ...OrWarn
\* Where the range loop goes after position i of list ts: the next element,
\* or c.db.AutoMigrate once the list is exhausted.
AfterElement(ts, i) == IF i + 1 > Len(ts) THEN "am_sync" ELSE "am_loop"

\* Entry of AutoMigrate(tables...), called directly (m = "AutoMigrate") or
\* through AutoMigrateOrWarn: if c.db == nil { return ErrConnectionClosed }
AutoMigrateEnter(t, m, ts) ==
    /\ CanCall(t)
    /\ calls' = calls + 1
    /\ op' = [op EXCEPT ![t] = m]
    /\ tables' = [tables EXCEPT ![t] = ts]
    /\ IF db = NilPtr
       THEN /\ ret' = [ret EXCEPT ![t] = [kind |-> "error", err |-> ErrConnectionClosed]]
            /\ Goto(t, "am_ret")
       ELSE /\ Goto(t, AfterElement(ts, 0))
            /\ UNCHANGED ret
    /\ UNCHANGED << args, fields, err, idx, unmigratedTables, synced, syncErrs, printed,
                    process, gcHandles, effects >>

AutoMigrate(t) ==
    \E ts \in TableLists : AutoMigrateEnter(t, "AutoMigrate", ts)

AutoMigrateOrWarn(t) ==
    \E ts \in WarnTableLists : AutoMigrateEnter(t, "AutoMigrateOrWarn", ts)

\* AutoMigrateCheck that does not consult the map: every element is taken
\* for unmigrated.
AutoMigrateCheckNoFilter(t) ==
    /\ Running
    /\ pc[t] = "am_loop"
    /\ Goto(t, "am_mark")
    /\ UNCHANGED << args, fields, op, err, amLocals, ret, synced, syncErrs,
                    printed, process, calls, gcHandles, effects >>

\* t := reflect.ValueOf(table).Type(); if !c.migratedTables[t] { ... }
\* -- the read of the map.
AutoMigrateCheck(t) ==
    /\ Running
    /\ pc[t] = "am_loop"
    /\ IF TypeOf(tables[t][idx[t]]) \in migratedTables
       THEN /\ idx' = [idx EXCEPT ![t] = idx[t] + 1]
            /\ Goto(t, AfterElement(tables[t], idx[t]))
       ELSE /\ Goto(t, "am_mark")
            /\ UNCHANGED idx
    /\ UNCHANGED << args, fields, op, err, tables, unmigratedTables, ret,
                    synced, syncErrs, printed, process, calls, gcHandles, effects >>

\* AutoMigrateMark without the write of the map: the table is appended and
\* never marked.
AutoMigrateMarkNoWrite(t) ==
    /\ Running
    /\ pc[t] = "am_mark"
    /\ unmigratedTables' =
          [unmigratedTables EXCEPT ![t] = Append(@, tables[t][idx[t]])]
    /\ idx' = [idx EXCEPT ![t] = idx[t] + 1]
    /\ Goto(t, AfterElement(tables[t], idx[t]))
    /\ UNCHANGED << args, fields, op, err, tables, ret, synced, syncErrs, printed,
                    process, calls, gcHandles, effects >>

\* AutoMigrateMark without the append: the table is marked and never put in
\* the batch.
AutoMigrateMarkNoAppend(t) ==
    /\ Running
    /\ pc[t] = "am_mark"
    /\ migratedTables' = migratedTables \cup { TypeOf(tables[t][idx[t]]) }
    /\ idx' = [idx EXCEPT ![t] = idx[t] + 1]
    /\ Goto(t, AfterElement(tables[t], idx[t]))
    /\ UNCHANGED << args, dialector, config, connStr, db, once, op, err,
                    tables, unmigratedTables, ret, synced, syncErrs, printed, process,
                    calls, gcHandles, effects >>

\* AutoMigrateMark that replaces the map by one holding the current type
\* alone.
AutoMigrateMarkReset(t) ==
    /\ Running
    /\ pc[t] = "am_mark"
    /\ unmigratedTables' =
          [unmigratedTables EXCEPT ![t] = Append(@, tables[t][idx[t]])]
    /\ migratedTables' = { TypeOf(tables[t][idx[t]]) }
    /\ idx' = [idx EXCEPT ![t] = idx[t] + 1]
    /\ Goto(t, AfterElement(tables[t], idx[t]))
    /\ UNCHANGED << args, dialector, config, connStr, db, once, op, err,
                    tables, ret, synced, syncErrs, printed, process, calls,
                    gcHandles, effects >>

\* unmigratedTables = append(unmigratedTables, table);
\* c.migratedTables[t] = true -- the write of the map.
AutoMigrateMark(t) ==
    /\ Running
    /\ pc[t] = "am_mark"
    /\ unmigratedTables' =
          [unmigratedTables EXCEPT ![t] = Append(@, tables[t][idx[t]])]
    /\ migratedTables' = migratedTables \cup { TypeOf(tables[t][idx[t]]) }
    /\ idx' = [idx EXCEPT ![t] = idx[t] + 1]
    /\ Goto(t, AfterElement(tables[t], idx[t]))
    /\ UNCHANGED << args, dialector, config, connStr, db, once, op, err,
                    tables, ret, synced, syncErrs, printed, process, calls, gcHandles,
                    effects >>

\* AutoMigrateSync that takes the marks of its batch back when the engine
\* fails (mark after success).
AutoMigrateSyncUndo(t) ==
    /\ Running
    /\ pc[t] = "am_sync"
    /\ synced' = [synced EXCEPT ![t] = Append(@, unmigratedTables[t])]
    /\ syncCount' = [ty \in Types |->
                       syncCount[ty] +
                       Cardinality({ i \in DOMAIN unmigratedTables[t] :
                                       TypeOf(unmigratedTables[t][i]) = ty })]
    /\ \E e \in {Nil, ErrSync} :
          /\ syncErrs' = [syncErrs EXCEPT ![t] = Append(@, e)]
          /\ ret' = [ret EXCEPT ![t] = [kind |-> "error", err |-> e]]
          /\ syncFailed' = IF e = Nil THEN syncFailed
                           ELSE syncFailed \cup TypesOf(unmigratedTables[t])
          /\ migratedTables' = IF e = Nil THEN migratedTables
                               ELSE migratedTables \ TypesOf(unmigratedTables[t])
    /\ Goto(t, "am_ret")
    /\ UNCHANGED << args, dialector, config, connStr, db, once, op, err,
                    amLocals, printed, process, calls, gcHandles, openCalls,
                    onceErr, poolCalls >>

\* AutoMigrateSync that returns nil without calling the engine when the
\* batch is empty.
AutoMigrateSyncSkipEmpty(t) ==
    /\ Running
    /\ pc[t] = "am_sync"
    /\ IF unmigratedTables[t] = << >>
       THEN /\ ret' = [ret EXCEPT ![t] = [kind |-> "error", err |-> Nil]]
            /\ UNCHANGED << synced, syncErrs, syncCount, syncFailed >>
       ELSE /\ synced' = [synced EXCEPT ![t] = Append(@, unmigratedTables[t])]
            /\ syncCount' = [ty \in Types |->
                               syncCount[ty] +
                               Cardinality({ i \in DOMAIN unmigratedTables[t] :
                                               TypeOf(unmigratedTables[t][i]) = ty })]
            /\ \E e \in {Nil, ErrSync} :
                  /\ syncErrs' = [syncErrs EXCEPT ![t] = Append(@, e)]
                  /\ ret' = [ret EXCEPT ![t] = [kind |-> "error", err |-> e]]
                  /\ syncFailed' = IF e = Nil THEN syncFailed
                                   ELSE syncFailed \cup TypesOf(unmigratedTables[t])
    /\ Goto(t, "am_ret")
    /\ UNCHANGED << args, fields, op, err, amLocals, printed, process, calls,
                    gcHandles, openCalls, onceErr, poolCalls >>

\* return c.db.AutoMigrate(unmigratedTables...), whose result is nil or an
\* error of the engine.
AutoMigrateSync(t) ==
    /\ Running
    /\ pc[t] = "am_sync"
    /\ synced' = [synced EXCEPT ![t] = Append(@, unmigratedTables[t])]
    /\ syncCount' = [ty \in Types |->
                       syncCount[ty] +
                       Cardinality({ i \in DOMAIN unmigratedTables[t] :
                                       TypeOf(unmigratedTables[t][i]) = ty })]
    /\ \E e \in {Nil, ErrSync} :
          /\ syncErrs' = [syncErrs EXCEPT ![t] = Append(@, e)]
          /\ ret' = [ret EXCEPT ![t] = [kind |-> "error", err |-> e]]
          /\ syncFailed' = IF e = Nil THEN syncFailed
                           ELSE syncFailed \cup TypesOf(unmigratedTables[t])
    /\ Goto(t, "am_ret")
    /\ UNCHANGED << args, fields, op, err, amLocals, printed, process, calls,
                    gcHandles, openCalls, onceErr, poolCalls >>

\* AutoMigrateOrWarnLog that hands the error on to the caller instead of
\* printing it.
AutoMigrateOrWarnPropagate(t) ==
    /\ Running
    /\ pc[t] = "am_ret"
    /\ op[t] = "AutoMigrateOrWarn"
    /\ err' = [err EXCEPT ![t] = ret[t].err]
    /\ Goto(t, "ow_ret")
    /\ UNCHANGED << args, fields, op, amLocals, ret, synced, syncErrs, printed, process,
                    calls, gcHandles, effects >>

\* AutoMigrateOrWarn after c.AutoMigrate(tables...) has returned:
\* if err := ...; err != nil { log.Printf("%v\n", err) }, and nothing is
\* returned.
AutoMigrateOrWarnLog(t) ==
    /\ Running
    /\ pc[t] = "am_ret"
    /\ op[t] = "AutoMigrateOrWarn"
    /\ err' = [err EXCEPT ![t] = ret[t].err]
    /\ printed' = [printed EXCEPT ![t] =
                     IF ret[t].err # Nil
                     THEN Append(@, [format |-> "%v\n", arg |-> ret[t].err])
                     ELSE @]
    /\ ret' = [ret EXCEPT ![t] = [kind |-> "void"]]
    /\ Goto(t, "ow_ret")
    /\ UNCHANGED << args, fields, op, amLocals, synced, syncErrs, process, calls,
                    gcHandles, effects >>

\* Two goroutines at the map at once, one of them writing: the runtime may
\* throw "concurrent map writes" / "concurrent map read and map write",
\* which ends the process.
MapFault(t) ==
    /\ Running
    /\ pc[t] = "am_mark"
    /\ \E u \in Callers \ {t} : pc[u] \in {"am_loop", "am_mark"}
    /\ process' = "fault"
    /\ UNCHANGED << args, fields, pc, frame, calls, gcHandles, effects >>

\* ------------------------------------------------------ Dialect, ConnString
\* c.config.Name(): the Name method of the Dialector embedded in the
\* configuration; a nil embedded Dialector makes the call panic.
DialectResult ==
    IF Deref(config).Dialector = Nil
    THEN [kind |-> "panic", value |-> "nil pointer dereference"]
    ELSE [kind |-> "string", value |-> DialectorName(Deref(config).Dialector)]

\* func (c *connectionManager) Dialect() string
Dialect(t) ==
    /\ CanCall(t)
    /\ calls' = calls + 1
    /\ op' = [op EXCEPT ![t] = "Dialect"]
    /\ ret' = [ret EXCEPT ![t] = DialectResult]
    /\ Goto(t, "acc_ret")
    /\ UNCHANGED << args, fields, err, amLocals, synced, syncErrs, printed, process,
                    gcHandles, effects >>

\* ConnString that returns the dialect name instead of c.connStr.
ConnStringOfDialect(t) ==
    /\ CanCall(t)
    /\ calls' = calls + 1
    /\ op' = [op EXCEPT ![t] = "ConnString"]
    /\ ret' = [ret EXCEPT ![t] =
                 [kind |-> "string", value |-> DialectorName(dialector)]]
    /\ Goto(t, "acc_ret")
    /\ UNCHANGED << args, fields, err, amLocals, synced, syncErrs, printed, process,
                    gcHandles, effects >>

\* func (c *connectionManager) ConnString() string
ConnString(t) ==
    /\ CanCall(t)
    /\ calls' = calls + 1
    /\ op' = [op EXCEPT ![t] = "ConnString"]
    /\ ret' = [ret EXCEPT ![t] = [kind |-> "string", value |-> connStr]]
    /\ Goto(t, "acc_ret")
    /\ UNCHANGED << args, fields, err, amLocals, synced, syncErrs, printed, process,
                    gcHandles, effects >>

Next ==
    \E t \in Threads :
       \/ NewDefaultConfig(t)
       \/ NewReturn(t)
       \/ Return(t)
       \/ GetConnection(t)
       \/ OnceDo(t)
       \/ OnceDoSlow(t)
       \/ ExecOnceOpen(t)
       \/ ExecOncePool(t)
       \/ OnceDone(t)
       \/ GetConnectionReturn(t)
       \/ AutoMigrate(t)
       \/ AutoMigrateOrWarn(t)
       \/ AutoMigrateCheck(t)
       \/ AutoMigrateMark(t)
       \/ AutoMigrateSync(t)
       \/ AutoMigrateOrWarnLog(t)
       \/ MapFault(t)
       \/ Dialect(t)
       \/ ConnString(t)

\* Callers that use the manager from any number of goroutines.
Spec == Init /\ [][Next]_vars

\* No other caller is inside a method of the manager.
Alone(t) == \A u \in Callers \ {t} : pc[u] = "idle"

NextSeq ==
    \E t \in Threads :
       \/ NewDefaultConfig(t)
       \/ NewReturn(t)
       \/ Return(t)
       \/ Alone(t) /\ GetConnection(t)
       \/ OnceDo(t)
       \/ OnceDoSlow(t)
       \/ ExecOnceOpen(t)
       \/ ExecOncePool(t)
       \/ OnceDone(t)
       \/ GetConnectionReturn(t)
       \/ Alone(t) /\ AutoMigrate(t)
       \/ Alone(t) /\ AutoMigrateOrWarn(t)
       \/ AutoMigrateCheck(t)
       \/ AutoMigrateMark(t)
       \/ AutoMigrateSync(t)
       \/ AutoMigrateOrWarnLog(t)
       \/ Alone(t) /\ Dialect(t)
       \/ Alone(t) /\ ConnString(t)

\* Callers whose calls on the manager never overlap.
SpecSeq == Init /\ [][NextSeq]_vars

\* ======================================================================
\* Properties
\* ======================================================================

AutoMigrateMethods == {"AutoMigrate", "AutoMigrateOrWarn"}

\* Number of elements of batch b that have type identity ty.
CountType(b, ty) == Cardinality({ i \in DOMAIN b : TypeOf(b[i]) = ty })

\* The subsequence of ts at the positions in keep, in order.
RECURSIVE Pick(_, _, _)
Pick(ts, keep, i) ==
    IF i > Len(ts) THEN << >>
    ELSE (IF i \in keep THEN << ts[i] >> ELSE << >>) \o Pick(ts, keep, i + 1)

\* The elements of ts whose type identity is not in seen.
Unseen(ts, seen) ==
    Pick(ts, { i \in DOMAIN ts : TypeOf(ts[i]) \notin seen }, 1)

\* The elements of ts whose type identity is not in seen and is not the type
\* identity of an element before them in ts.
UnseenFirsts(ts, seen) ==
    Pick(ts, { i \in DOMAIN ts :
                 /\ TypeOf(ts[i]) \notin seen
                 /\ \A j \in 1..(i - 1) : TypeOf(ts[j]) # TypeOf(ts[i]) }, 1)

\* ---------------------------------------------------------------- C1
\* C1: however many GetConnection calls are made on a manager, by the
\* constructor or by callers, one after another or at once, gorm.Open is
\* invoked exactly once, and every call returns the same handle.
C1_OpenOnce ==
    /\ openCalls <= 1
    /\ gcHandles # {} => openCalls = 1
    /\ Cardinality(gcHandles) <= 1
    /\ \A t \in Threads :
          pc[t] \in {"gc_ret2", "new_ret"} => ret[t].db \in gcHandles

\* Two callers are returning from GetConnection calls made at the same time,
\* after the call the constructor made.
C1_Witness ==
    /\ \A t \in Callers : pc[t] = "gc_ret2"
    /\ openCalls = 1

\* ---------------------------------------------------------------- C2
\* C2: when the one-time open ended with error E, every GetConnection call
\* on the manager returns E -- the one that ran the open and every other.
C2_SameError ==
    \A t \in Threads :
       (pc[t] \in {"gc_ret2", "new_ret"} /\ onceErr # Nil) => ret[t].err = onceErr

\* ---------------------------------------------------------------- C3
\* The type identities earlier calls handed to the engine, seen from a call
\* of thread t that has just made its own engine call.
PassedEarlier(t) ==
    { ty \in Types : syncCount[ty] - CountType(synced[t][1], ty) > 0 }

\* C3 as stated: with calls that never overlap, the batch a call hands to
\* the engine is exactly the input definitions whose type identity no
\* earlier call handed to it.
C3_BatchIsUnseen ==
    \A t \in Callers :
       (pc[t] = "am_ret" /\ synced[t] # << >>) =>
          synced[t][1] = Unseen(tables[t], PassedEarlier(t))

\* C3 as amended: with calls that never overlap, the batch a call hands to
\* the engine is exactly the input definitions whose type identity no
\* earlier call handed to it and no earlier element of the same list has;
\* so no type identity is handed to the engine twice.
C3_BatchIsUnseenFirsts ==
    /\ \A t \in Callers :
          (pc[t] = "am_ret" /\ synced[t] # << >>) =>
             synced[t][1] = UnseenFirsts(tables[t], PassedEarlier(t))
    /\ \A ty \in Types : syncCount[ty] <= 1

\* A1, B1, C1 is given to a manager that has synchronized A and B: the
\* engine gets C1 alone.
C3_Witness ==
    \E t \in Callers :
       /\ pc[t] = "am_ret"
       /\ tables[t] = << A1, B1, C1 >>
       /\ synced[t] = << << C1 >> >>
       /\ syncCount["A"] = 1 /\ syncCount["B"] = 1

\* ---------------------------------------------------------------- C4
InAutoMigrateLoop(t) == pc[t] \in {"am_loop", "am_mark", "am_sync"}

\* C4: two AutoMigrate calls that run at once never both put a definition
\* of one type identity in their pending batches, never both have decided
\* that one type identity is unmigrated, and are never both at the map.
C4_Serialized ==
    \A t, u \in Callers :
       t # u =>
          /\ TypesOf(unmigratedTables[t]) \cap TypesOf(unmigratedTables[u]) = {}
          /\ ~ (pc[t] = "am_mark" /\ pc[u] \in {"am_loop", "am_mark"})

\* ---------------------------------------------------------------- C5
\* C5: on a manager whose one-time open did not succeed, every AutoMigrate
\* call returns ErrConnectionClosed, hands nothing to the engine and leaves
\* migratedTables as it was.
C5_ClosedGuard ==
    onceErr # Nil =>
       /\ migratedTables = {}
       /\ \A ty \in Types : syncCount[ty] = 0
       /\ \A t \in Callers :
             op[t] \in AutoMigrateMethods =>
                /\ pc[t] \in {"am_ret", "ow_ret"}
                /\ synced[t] = << >>
                /\ pc[t] = "am_ret" => ret[t].err = ErrConnectionClosed

\* ---------------------------------------------------------------- C6
\* C6: the constructor has made the open attempt when it returns; the
\* standard constructor returns the manager with the error of that attempt
\* (nil exactly when it succeeded); the Must constructor returns only after
\* a successful attempt and otherwise ends the process.
C6_Construction ==
    /\ pc[Main] = "returned" =>
          /\ openCalls = 1
          /\ ret[Main].kind = "manager"
          /\ ret[Main].err = onceErr
          /\ args.must => onceErr = Nil
    /\ pc[Main] = "fatal" <=> process = "exited"
    /\ pc[Main] = "fatal" => (args.must /\ onceErr # Nil /\ openCalls = 1)

\* The standard constructor has returned a manager and an error.
C6_Witness ==
    /\ pc[Main] = "returned"
    /\ ~ args.must
    /\ ret[Main].err = ErrPool

\* ---------------------------------------------------------------- C7
\* C7 as stated: in every state a type identity is in migratedTables if and
\* only if it has been handed to the engine.
C7_MarkedIffSynced ==
    \A ty \in Types : ty \in migratedTables <=> syncCount[ty] > 0

\* C7 as amended: in every state a type identity that has been handed to
\* the engine is in migratedTables, and one that is in migratedTables has
\* been handed to the engine or is in the pending batch of a call that has
\* not made its engine call yet.
C7_MarkedIffSyncedOrPending ==
    \A ty \in Types :
       /\ syncCount[ty] > 0 => ty \in migratedTables
       /\ ty \in migratedTables =>
             \/ syncCount[ty] > 0
             \/ \E t \in Callers :
                   /\ InAutoMigrateLoop(t)
                   /\ ty \in TypesOf(unmigratedTables[t])

\* A call has marked its definitions and is about to hand them to the
\* engine, while another call has made its engine call.
C7_Witness ==
    \E t, u \in Callers :
       /\ pc[t] = "am_sync" /\ unmigratedTables[t] = << B1, C1 >>
       /\ pc[u] = "am_ret" /\ synced[u] = << << A1 >> >>

\* ---------------------------------------------------------------- C8
\* C8: a call of Dialect or ConnString, in any state, leaves the handle,
\* the guard, migratedTables and the configuration as they are, invokes
\* neither gorm.Open nor the engine nor the pool settings, and ConnString
\* returns the connection string given to the constructor.
C8_AccessorsPure ==
    [][ \A t \in Callers :
           (pc[t] = "idle" /\ pc'[t] = "acc_ret") =>
              /\ UNCHANGED << fields, effects, gcHandles, process, synced, printed >>
              /\ op'[t] = "ConnString" =>
                    ret'[t] = [kind |-> "string", value |-> args.connStr] ]_vars

\* ConnString is returning on a manager whose open failed, while the other
\* caller is inside AutoMigrate.
C8_Witness ==
    \E t, u \in Callers :
       /\ pc[t] = "acc_ret" /\ op[t] = "ConnString"
       /\ ret[t].value = ConnStrB
       /\ onceErr # Nil
       /\ pc[u] = "am_mark"

\* ---------------------------------------------------------------- C9
\* C9: Dialect returns the name of the dialector given to the constructor,
\* whatever configuration the manager was constructed with, and never fails.
C9_DialectName ==
    \A t \in Callers :
       (pc[t] = "acc_ret" /\ op[t] = "Dialect") =>
          ret[t] = [kind |-> "string", value |-> DialectorName(args.dialector)]

\* ---------------------------------------------------------------- C10
\* C10: AutoMigrateOrWarn returns nothing to its caller; the error of its
\* AutoMigrate call, when there is one, is printed once and nothing else
\* is; and that AutoMigrate call did what a direct one does: with no handle
\* it failed with ErrConnectionClosed and made no engine call, otherwise it
\* made one engine call, for definitions that are all marked.
C10_OrWarn ==
    \A t \in Callers :
       pc[t] = "ow_ret" =>
          /\ ret[t] = [kind |-> "void"]
          /\ printed[t] = IF err[t] = Nil THEN << >>
                          ELSE << [format |-> "%v\n", arg |-> err[t]] >>
          /\ err[t] \in {Nil, ErrConnectionClosed, ErrSync}
          /\ err[t] = ErrConnectionClosed <=> db = NilPtr
          /\ IF db = NilPtr THEN synced[t] = << >>
             ELSE /\ Len(synced[t]) = 1
                  /\ synced[t][1] = unmigratedTables[t]
                  /\ TypesOf(synced[t][1]) \subseteq migratedTables

\* AutoMigrateOrWarn is returning after the engine failed on a batch.
C10_Witness ==
    \E t \in Callers :
       /\ pc[t] = "ow_ret"
       /\ err[t] = ErrSync
       /\ synced[t] = << << A1, B1 >> >>

C11_WitnessExplicit ==
    /\ pc[Main] = "returned"
    /\ args.config = Ptr(ZeroConfig)
    /\ config = args.config

\* ---------------------------------------------------------------- C12
\* The positions inside execOnceOnlyFunc and the deferred calls of doSlow.
InOnceAction(t) == pc[t] \in {"gc_open", "gc_pool", "gc_unlock"}

\* The positions of a GetConnection call after c.once.Do has returned.
PastOnceDo(t) ==
    \/ pc[t] \in {"gc_ret", "gc_ret2"}
    \/ t = Main /\ pc[t] \in {"new_ret", "returned", "fatal"}

\* C12: a GetConnection call is past c.once.Do only when the one-time
\* action has run to its end: the guard is marked done, gorm.Open has been
\* invoked, and no thread is inside the action; what the call then returns
\* is the handle the action left in c.db.
C12_ReturnsAfterOpen ==
    \A t \in Threads :
       PastOnceDo(t) =>
          /\ once.done
          /\ openCalls = 1
          /\ \A u \in Threads : ~ InOnceAction(u)
          /\ pc[t] \in {"gc_ret2", "new_ret"} => ret[t].db = db

\* The call that started with the guard open -- the constructor's -- is
\* returning the handle, after it ran the action itself including the pool
\* settings.
C12_Witness ==
    /\ pc[Main] = "new_ret"
    /\ ret[Main] = [kind |-> "conn", db |-> Ptr(1), err |-> Nil]
    /\ Len(poolCalls) = 2
    /\ once.done

\* ---------------------------------------------------------------- C13
\* C13: the type identities of a batch the engine failed on stay in
\* migratedTables for good, and from the failure on no AutoMigrate call
\* finds one of them unmigrated -- so none is put in a batch, or handed to
\* the engine, by a call made after the failure.
C13_FailedStayMarked ==
    /\ [](syncFailed \subseteq migratedTables)
    /\ [][ \A t \in Callers :
             (pc[t] = "am_loop" /\ pc'[t] = "am_mark") =>
                TypeOf(tables[t][idx[t]]) \notin syncFailed ]_vars

\* The engine failed on a batch of A and B; a later call given A1, B1, C1
\* has handed C1 alone to the engine.
C13_Witness ==
    \E t \in Callers :
       /\ pc[t] = "am_ret"
       /\ tables[t] = << A1, B1, C1 >>
       /\ synced[t] = << << C1 >> >>
       /\ { "A", "B" } \subseteq syncFailed
       /\ "C" \notin syncFailed

\* ---------------------------------------------------------------- C14
\* s is ts with some of its elements left out, the others in their order.
IsSubSeq(s, ts) == \E keep \in SUBSET DOMAIN ts : s = Pick(ts, keep, 1)

\* C14: when an AutoMigrate call on a manager with a handle is about to
\* return, it has made one engine call, the batch of that call is the list
\* of the definitions it found unmigrated, in the order of its input, and
\* what it returns is what the engine returned -- also when that list is
\* empty.
C14_OneEngineCall ==
    \A t \in Callers :
       (pc[t] = "am_ret" /\ db # NilPtr) =>
          /\ Len(synced[t]) = 1
          /\ Len(syncErrs[t]) = 1
          /\ synced[t][1] = unmigratedTables[t]
          /\ IsSubSeq(synced[t][1], tables[t])
          /\ ret[t] = [kind |-> "error", err |-> syncErrs[t][1]]

\* A call given A1, B1 on a manager that has marked both has made its
\* engine call with an empty batch, and returns the error of the engine.
C14_Witness ==
    \E t \in Callers :
       /\ pc[t] = "am_ret"
       /\ op[t] = "AutoMigrate"
       /\ tables[t] = << A1, B1 >>
       /\ synced[t] = << << >> >>
       /\ syncErrs[t] = << ErrSync >>
       /\ ret[t].err = ErrSync

\* ---------------------------------------------------------------- C15
\* C15: no step of any operation, in any interleaving, takes a type
\* identity out of migratedTables.
C15_OnlyGrows ==
    [][ migratedTables \subseteq migratedTables' ]_vars

\* The engine failed on a batch of A and B, both are still marked, and a
\* GetConnection call made afterwards is returning.
C15_Witness ==
    \E t \in Callers :
       /\ pc[t] = "gc_ret2"
       /\ syncFailed = { "A", "B" }
       /\ migratedTables = { "A", "B" }

\* ---------------------------------------------------------------- C16
\* Batch b holds no two definitions of one type identity, and each of its
\* definitions is the first of its type identity in the input list ts.
FirstsOnly(b, ts) ==
    /\ \A i, j \in DOMAIN b : TypeOf(b[i]) = TypeOf(b[j]) => i = j
    /\ \A i \in DOMAIN b :
          \E k \in DOMAIN ts :
             /\ ts[k] = b[i]
             /\ \A j \in 1..(k - 1) : TypeOf(ts[j]) # TypeOf(b[i])

\* C16: the pending batch of an AutoMigrate call, while it is built and
\* when it is handed to the engine, holds at most one definition of each
\* type identity, and that one is the first of its type in the input list.
C16_OnePerType ==
    \A t \in Callers :
       /\ FirstsOnly(unmigratedTables[t], tables[t])
       /\ \A i \in DOMAIN synced[t] : FirstsOnly(synced[t][i], tables[t])

\* A call given two definitions of type A has handed the first alone to
\* the engine.
C16_Witness ==
    \E t \in Callers :
       /\ pc[t] = "am_ret"
       /\ tables[t] = << A1, A2 >>
       /\ synced[t] = << << A1 >> >>

\* ---------------------------------------------------------------- C17
\* sqlDB.SetMaxIdleConns(10); sqlDB.SetMaxOpenConns(-1)
PoolSettings ==
    << [set |-> "MaxIdleConns", n |-> MaxIdleConns],
       [set |-> "MaxOpenConns", n |-> MaxOpenConns] >>

\* C17: the pool settings made on a manager are none, or SetMaxIdleConns(10)
\* and SetMaxOpenConns(-1) once each; they are made only after gorm.Open
\* and c.db.DB() both returned no error; and once the one-time action has
\* ended they have been made exactly when it ended without error, however
\* many GetConnection calls follow.
C17_PoolOnce ==
    /\ poolCalls \in { << >>, PoolSettings }
    /\ poolCalls # << >> => (openCalls = 1 /\ db # NilPtr /\ onceErr = Nil)
    /\ onceErr # Nil => poolCalls = << >>
    /\ once.done => (poolCalls = PoolSettings <=> onceErr = Nil)

\* After a successful construction two GetConnection calls are returning
\* and the pool has its two settings, made once.
C17_Witness ==
    /\ \A t \in Callers : pc[t] = "gc_ret2" /\ ret[t].db # NilPtr
    /\ poolCalls = PoolSettings
    /\ onceErr = Nil

\* The one-time action has ended after gorm.Open returned a handle and an
\* error: no pool setting was made.
C17_WitnessOpenFailed ==
    /\ once.done
    /\ db # NilPtr
    /\ onceErr = ErrOpen
    /\ poolCalls = << >>

\* ---------------------------------------------------------------- C18
\* C18: a GetConnection call made by a caller of the manager finds the
\* guard consumed: it never enters the one-time action, gorm.Open is not
\* invoked again, and it returns c.db with a nil error whether the
\* constructor's attempt ended with an error or not; that error is what
\* the constructor returned.
C18_LaterCallsNilError ==
    /\ \A t \in Callers :
          /\ pc[t] \notin {"gc_lock", "gc_open", "gc_pool", "gc_unlock"}
          /\ op[t] = "GetConnection" => (once.done /\ openCalls = 1 /\ err[t] = Nil)
          /\ pc[t] = "gc_ret2" => ret[t] = [kind |-> "conn", db |-> db, err |-> Nil]
    /\ pc[Main] = "returned" => ret[Main].err = onceErr

\* The constructor returned the error of a failed open, and a GetConnection
\* call on the manager is returning no handle and a nil error.
C18_Witness ==
    \E t \in Callers :
       /\ pc[t] = "gc_ret2"
       /\ ret[t] = [kind |-> "conn", db |-> NilPtr, err |-> Nil]
       /\ ret[Main].err = ErrOpen

\* ---------------------------------------------------------------- C19
\* C19: c.db is assigned by the gorm.Open step of the one-time action and
\* by no other step; the guard is done and no thread is inside the action
\* when the constructor has returned, hence whenever a caller is inside a
\* method of the manager; and c.db never changes once the constructor has
\* returned.
C19_HandleWrittenOnce ==
    /\ [][ db' # db =>
             \E t \in Threads : pc[t] = "gc_open" /\ pc'[t] # "gc_open" ]_vars
    /\ [](pc[Main] = "returned" =>
             (once.done /\ \A t \in Threads : ~ InOnceAction(t)))
    /\ []((\E t \in Callers : pc[t] # "idle") => pc[Main] = "returned")
    /\ [][ pc[Main] = "returned" => db' = db ]_vars

\* On a manager with a handle one caller is in the loop of AutoMigrate and
\* the other is about to return from GetConnection.
C19_Witness ==
    \E t, u \in Callers :
       /\ pc[t] = "am_mark"
       /\ pc[u] = "gc_ret"
       /\ db = Ptr(1)
       /\ pc[Main] = "returned"

====
